---- MODULE Spec2Model ----
(***************************************************************************)
(* Model of the chat-to-Neovim bridge of src/src/lib.rs.                   *)
(*                                                                         *)
(* Two threads: the background listener (connect) that turns chat events   *)
(* into CommandPayloads, pushes them on an unbounded mpsc channel and      *)
(* signals a libuv AsyncHandle; and the Neovim main loop, which runs the   *)
(* AsyncHandle callback (blocking_recv + schedule) and the scheduled       *)
(* dispatch closures (Plugin::show_msg / Plugin::colosrcheme).             *)
(*                                                                         *)
(* Strings are sequences of one-character strings so that trim and splitn  *)
(* are computed character by character.                                    *)
(***************************************************************************)
EXTENDS Integers, Sequences, FiniteSets, TLC

VARIABLES
    nEvents,    \* listener: number of chat events received so far
    msg,        \* listener: the ServerMessage being handled
    lpc,        \* listener: position in the body of the while-let loop
    queue,      \* mpsc channel: payloads sent and not yet received
    pending,    \* AsyncHandle: a send() has not yet been served by the loop
    nNotify,    \* number of handle.send() calls made
    hpc,        \* host thread: "loop", or "cb" inside the async callback
    nWake,      \* number of times the loop invoked the async callback
    tasks,      \* host: closures passed to schedule() and not yet run
    buffer,     \* Plugin.buffer: lines of the scratch buffer
    window,     \* Plugin.window: 0 for None, else the window id
    wins,       \* host: number of windows opened so far (ids 1..wins)
    valid,      \* host: ids of the windows that are still valid
    lastPos,    \* host: <<col, row>> given to the last nvim_open_win call
    lastFail,   \* host: the API call it rejected in the last dispatch, or "none"
    colors,     \* host: name of the active colorscheme
    errLog,     \* host: lines written with err_writeln
    crashed,    \* the process aborted on a panic
    enqLog,     \* history: payloads sent on the channel, in order
    dispLog     \* history: payloads whose scheduled closure has run, in order

vars == <<nEvents, msg, lpc, queue, pending, nNotify, hpc, nWake, tasks,
          buffer, window, wins, valid, lastPos, lastFail, colors, errLog,
          crashed,
          enqLog, dispLog>>

listenerVars == <<nEvents, msg, lpc, nNotify>>
hostVars == <<hpc, nWake, tasks, buffer, window, wins, valid, lastPos,
              lastFail, colors, errLog, dispLog>>
uiState == <<buffer, window>>

-----------------------------------------------------------------------------
(* Bounds *)

MaxEvents == 3      \* chat events fed to the listener in Spec
MaxPieces == 4      \* pieces concatenated into a chat text in ParseSpec

-----------------------------------------------------------------------------
(* Strings *)

Sp == <<" ">>
Tab == <<"\t">>
NvimTok == <<"!", "n", "v", "i", "m">>
ColorschemeTok == <<"!", "c", "o", "l", "o", "r", "s", "c", "h", "e", "m", "e">>
NvimUpper == <<"!", "N", "v", "i", "m">>
Hi == <<"h", "i">>
There == <<"t", "h", "e", "r", "e">>
Hello == <<"h", "e", "l", "l", "o">>
World == <<"w", "o", "r", "l", "d">>
Gruvbox == <<"g", "r", "u", "v", "b", "o", "x">>
Nope == <<"n", "o", "p", "e">>
Alice == <<"a", "l", "i", "c", "e">>
Bob == <<"b", "o", "b">>
Empty == <<>>

\* Option<T>: None is the empty sequence, Some(x) the one-element sequence.
None == <<>>
Some(x) == <<x>>

\* char::is_whitespace, restricted to the characters of the model.
IsWhitespace(c) == c \in {" ", "\t"}

RECURSIVE TrimStart(_)
TrimStart(s) ==
    IF s = <<>> THEN <<>>
    ELSE IF IsWhitespace(Head(s)) THEN TrimStart(Tail(s)) ELSE s

RECURSIVE TrimEnd(_)
TrimEnd(s) ==
    IF s = <<>> THEN <<>>
    ELSE IF IsWhitespace(s[Len(s)]) THEN TrimEnd(SubSeq(s, 1, Len(s) - 1)) ELSE s

\* trim_start in place of trim
Trim_StartOnly(s) == TrimStart(s)

\* str::trim
Trim(s) == TrimEnd(TrimStart(s))

\* position of the first " " in s, 0 if there is none
FirstSpace(s) ==
    IF \E i \in 1..Len(s) : s[i] = " "
    THEN CHOOSE i \in 1..Len(s) : s[i] = " " /\ \A j \in 1..(i - 1) : s[j] # " "
    ELSE 0

\* split(" ") in place of splitn(2, " "): the second piece stops at the next " "
Splitn2_Split(s) ==
    IF FirstSpace(s) = 0 THEN <<s>>
    ELSE LET rest == SubSeq(s, FirstSpace(s) + 1, Len(s))
         IN  <<SubSeq(s, 1, FirstSpace(s) - 1),
               IF FirstSpace(rest) = 0 THEN rest
               ELSE SubSeq(rest, 1, FirstSpace(rest) - 1)>>

\* s.splitn(2, " ") collected: one piece if s has no " ", else the text
\* before the first " " and everything after it.
Splitn2(s) ==
    IF FirstSpace(s) = 0 THEN <<s>>
    ELSE <<SubSeq(s, 1, FirstSpace(s) - 1), SubSeq(s, FirstSpace(s) + 1, Len(s))>>

\* let mut split = msg.message_text.trim().splitn(2, " ");
Split(text) == Splitn2(Trim(text))
\* let command = split.next();
CommandOf(text) == Some(Split(text)[1])
\* let argument = split.next();
ArgumentOf(text) == IF Len(Split(text)) >= 2 THEN Some(Split(text)[2]) ELSE None

\* the token compared without regard to case
IsNvim_AnyCase(text) ==
    CommandOf(text) \in {Some(NvimTok), Some(NvimUpper)} /\ ArgumentOf(text) # None

\* if let Some("!nvim") = command { if let Some(text) = argument {
IsNvim(text) == CommandOf(text) = Some(NvimTok) /\ ArgumentOf(text) # None
\* if let Some("!colorscheme") = command { if let Some(colorscheme) = argument {
IsColorscheme(text) == CommandOf(text) = Some(ColorschemeTok) /\ ArgumentOf(text) # None

-----------------------------------------------------------------------------
(* Commands *)

Message(author, text) == [kind |-> "Message", author |-> author, text |-> text]
ColorScheme(name) == [kind |-> "ColorScheme", name |-> name]

\* Command::Message(name.to_owned(), text.to_owned())
MessageOf(m) == Message(m.sender, ArgumentOf(m.text)[1])
\* Command::ColorScheme(colorscheme.to_owned())
ColorSchemeOf(m) == ColorScheme(ArgumentOf(m.text)[1])

\* A payload on the channel; id is the number of the chat event it came from.
CommandPayload(id, c) == [id |-> id, command |-> c]

-----------------------------------------------------------------------------
(* Chat events *)

Privmsg(sender, text) == [kind |-> "Privmsg", sender |-> sender, text |-> text]
OtherMessage == [kind |-> "Other", sender |-> Empty, text |-> Empty]

RECURSIVE Concat(_)
Concat(ps) == IF ps = <<>> THEN <<>> ELSE Head(ps) \o Concat(Tail(ps))

Pieces == {NvimTok, ColorschemeTok, NvimUpper, Sp, Tab, Hi}
PieceTexts == {Concat(ps) : ps \in UNION {[1..n -> Pieces] : n \in 0..MaxPieces}}

NvimHelloWorld == NvimTok \o Sp \o Hello \o Sp \o World
ColorschemeGruvbox == ColorschemeTok \o Sp \o Gruvbox
NvimHiThere == NvimTok \o Sp \o Sp \o Hi \o Sp \o There \o Sp
ExampleTexts == {NvimHelloWorld, ColorschemeGruvbox, NvimHiThere}

\* events fed to the listener in ParseSpec
ParseEvents ==
    {Privmsg(s, t) : s \in {Alice, Bob}, t \in PieceTexts \cup ExampleTexts}
    \cup {OtherMessage}

\* events fed to the listener in Spec
BridgeEvents ==
    { Privmsg(Alice, NvimTok \o Sp \o Hi),
      Privmsg(Bob, NvimTok \o Sp \o Hello),
      Privmsg(Bob, ColorschemeTok \o Sp \o Gruvbox),
      Privmsg(Bob, ColorschemeTok \o Sp \o Nope),
      Privmsg(Alice, Hello),
      OtherMessage }

-----------------------------------------------------------------------------
(* Host primitives *)

Width == 40         \* let width: u32 = 40;
Height == 10        \* let height: u32 = 10;
U16 == 65536

\* A u32 (or the f32 it converts to) as [hi, lo], standing for hi * 2^16 + lo.
ToU32(n) == [hi |-> n \div U16, lo |-> n % U16]

\* a - b on u32 without overflow checks (a, b < 2^31)
WrappingSub(a, b) ==
    IF a >= b THEN ToU32(a - b)
    ELSE [hi |-> U16 - 1 - ((b - a - 1) \div U16),
          lo |-> U16 - 1 - ((b - a - 1) % U16)]

RECURSIVE BitLen(_)
BitLen(n) == IF n = 0 THEN 0 ELSE 1 + BitLen(n \div 2)

RECURSIVE Pow2(_)
Pow2(k) == IF k = 0 THEN 1 ELSE 2 * Pow2(k - 1)

\* u32 as f32: exact below 2^24, else rounded to 24 significant bits,
\* ties to even.
AsF32(u) ==
    IF u.hi < 256 THEN u
    ELSE LET ulp == Pow2(BitLen(u.hi) - 8)
             q == u.lo \div ulp
             r == u.lo % ulp
             up == (2 * r > ulp) \/ (2 * r = ulp /\ q % 2 = 1)
             lo == IF up THEN (q + 1) * ulp ELSE q * ulp
         IN  IF lo = U16 THEN [hi |-> u.hi + 1, lo |-> 0]
             ELSE [hi |-> u.hi, lo |-> lo]

\* <<columns, lines>> the host may report
Viewports == {<<80, 24>>, <<36, 6>>}

\* What the host answers to the calls of one dispatch: which calls succeed,
\* the viewport, and whether the build checks arithmetic overflow.
\* A dispatch returns at the first call the host rejects, so the answers
\* that reject at most one call cover every case.
HostOutcomes ==
    {o \in [setLines : BOOLEAN, getCols : BOOLEAN, getRows : BOOLEAN,
            openWin : BOOLEAN, setCurrentWin : BOOLEAN,
            viewport : Viewports, overflowChecks : BOOLEAN] :
        Cardinality({c \in {"setLines", "getCols", "getRows", "openWin",
                            "setCurrentWin"} : ~o[c]}) <= 1}

\* the lines added at the end of the buffer instead of replacing the range
SetLines_Append(buf, start, end, lines) == buf \o lines

\* Buffer::set_lines(start..end, strict_indexing = false, lines)
SetLines(buf, start, end, lines) ==
    LET e == IF end > Len(buf) THEN Len(buf) ELSE end
        b == IF start > Len(buf) THEN Len(buf) ELSE start
    IN  SubSeq(buf, 1, b) \o lines \o SubSeq(buf, e + 1, Len(buf))

ColorschemeCmd == <<"c", "o", "l", "o", "r", "s", "c", "h", "e", "m", "e", " ">>
InstalledSchemes == {Gruvbox}
DefaultScheme == <<"d", "e", "f", "a", "u", "l", "t">>

\* api::command(cmd): the host runs ":colorscheme <name>" and fails on an
\* unknown name.
HostCommandOk(cmd) == \E s \in InstalledSchemes : cmd = ColorschemeCmd \o s

-----------------------------------------------------------------------------
(* Plugin *)

\* The part of the state a dispatch works on.
PluginState ==
    [buffer |-> buffer, window |-> window, wins |-> wins, valid |-> valid,
     lastPos |-> lastPos, failed |-> "none"]

Ret(res, st) == [result |-> res, st |-> st]
\* the host rejected the API call named call: the ? operator returns Err
Fail(call, st) == Ret("Err", [st EXCEPT !.failed = call])

\* open_win without the final self.window = Some(window)
open_win_NoStore(st, o) ==
    LET cols == o.viewport[1]
        rows == o.viewport[2]
        hw == (Width - 2) \div 2
        hh == (Height - 2) \div 2
        x == AsF32(WrappingSub(cols \div 2, hw))
        y == AsF32(WrappingSub(rows \div 2, hh))
        w == st.wins + 1
        opened == [st EXCEPT !.wins = w, !.valid = st.valid \cup {w},
                             !.lastPos = <<x, y>>]
    IN  IF ~o.getCols \/ ~o.getRows THEN Fail("get_option_value", st)
        ELSE IF o.overflowChecks /\ (cols \div 2 < hw \/ rows \div 2 < hh)
             THEN Ret("Panic", st)
        ELSE IF ~o.openWin THEN Fail("open_win", st)
        ELSE IF ~o.setCurrentWin THEN Fail("set_current_win", opened)
        ELSE Ret("Ok", opened)

\* Plugin::open_win
open_win(st, o) ==
    LET cols == o.viewport[1]
        rows == o.viewport[2]
        hw == (Width - 2) \div 2
        hh == (Height - 2) \div 2
        x == AsF32(WrappingSub(cols \div 2, hw))
        y == AsF32(WrappingSub(rows \div 2, hh))
        w == st.wins + 1
        opened == [st EXCEPT !.wins = w, !.valid = st.valid \cup {w},
                             !.lastPos = <<x, y>>]
    IN  IF ~o.getCols \/ ~o.getRows THEN Fail("get_option_value", st)
        ELSE IF o.overflowChecks /\ (cols \div 2 < hw \/ rows \div 2 < hh)
             THEN Ret("Panic", st)
        ELSE IF ~o.openWin THEN Fail("open_win", st)
        ELSE IF ~o.setCurrentWin THEN Fail("set_current_win", opened)
        ELSE Ret("Ok", [opened EXCEPT !.window = w])

\* show_msg without the is_valid test: a tracked window is reopened each time
show_msg_NoValidCheck(st, author, message, o) ==
    LET written == [st EXCEPT !.buffer = SetLines(st.buffer, 0, 10,
                                                  <<author, Empty, message>>)]
    IN  IF ~o.setLines THEN Fail("set_lines", st)
        ELSE open_win(written, o)

\* show_msg going on to the window after a rejected set_lines
show_msg_IgnoreWriteError(st, author, message, o) ==
    LET written == IF o.setLines
                   THEN [st EXCEPT !.buffer = SetLines(st.buffer, 0, 10,
                                                       <<author, Empty, message>>)]
                   ELSE [st EXCEPT !.failed = "set_lines"]
    IN  IF written.window # 0
        THEN IF written.window \notin written.valid
             THEN open_win(written, o)
             ELSE Ret("Ok", written)
        ELSE open_win(written, o)

\* Plugin::show_msg
show_msg(st, author, message, o) ==
    LET written == [st EXCEPT !.buffer = SetLines(st.buffer, 0, 10,
                                                  <<author, Empty, message>>)]
    IN  IF ~o.setLines THEN Fail("set_lines", st)
        ELSE IF written.window # 0
             THEN IF written.window \notin written.valid
                  THEN open_win(written, o)
                  ELSE Ret("Ok", written)
             ELSE open_win(written, o)

\* Plugin::colosrcheme
colosrcheme(colorscheme) ==
    LET command == ColorschemeCmd \o colorscheme
    IN  IF HostCommandOk(command) THEN "Ok" ELSE "Err"

-----------------------------------------------------------------------------
(* Initial state: after nvim_plugin() returned and the listener thread     *)
(* entered its receive loop.                                               *)

Init ==
    /\ nEvents = 0
    /\ msg = OtherMessage
    /\ lpc = "recv"
    /\ queue = <<>>
    /\ pending = FALSE
    /\ nNotify = 0
    /\ hpc = "loop"
    /\ nWake = 0
    /\ tasks = <<>>
    /\ buffer = <<Empty>>
    /\ window = 0
    /\ wins = 0
    /\ valid = {}
    /\ lastPos = <<ToU32(0), ToU32(0)>>
    /\ lastFail = "none"
    /\ colors = DefaultScheme
    /\ errLog = <<>>
    /\ crashed = FALSE
    /\ enqLog = <<>>
    /\ dispLog = <<>>

-----------------------------------------------------------------------------
(* Listener thread (connect) *)

\* the second if taken as well after the first one matched
AfterNvim_Fallthrough(m) ==
    IF IsNvim(m.text) \/ IsColorscheme(m.text) THEN "send_colorscheme" ELSE "recv"

\* where the loop body goes after the first if: into the second if, or back
\* to recv().await
AfterNvim(m) == IF IsColorscheme(m.text) THEN "send_colorscheme" ELSE "recv"

\* where the loop body goes once a message is matched
AfterRecv(m) ==
    IF m.kind # "Privmsg" THEN "recv"
    ELSE IF IsNvim(m.text) THEN "send_nvim"
    ELSE AfterNvim(m)

\* the handle is signalled as soon as a message matches, before the send
ListenerRecv_NotifyFirst(m) ==
    /\ ~crashed
    /\ lpc = "recv"
    /\ nEvents < MaxEvents
    /\ nEvents' = nEvents + 1
    /\ msg' = m
    /\ lpc' = AfterRecv(m)
    /\ pending' = (pending \/ AfterRecv(m) # "recv")
    /\ nNotify' = nNotify + (IF AfterRecv(m) # "recv" THEN 1 ELSE 0)
    /\ UNCHANGED <<queue, enqLog>>
    /\ UNCHANGED hostVars /\ UNCHANGED crashed

\* incoming_messages.recv().await yields message m; match and split it
ListenerRecv(m) ==
    /\ ~crashed
    /\ lpc = "recv"
    /\ nEvents < MaxEvents
    /\ nEvents' = nEvents + 1
    /\ msg' = m
    /\ lpc' = AfterRecv(m)
    /\ UNCHANGED <<queue, pending, nNotify, enqLog>>
    /\ UNCHANGED hostVars /\ UNCHANGED crashed

\* the listener writes the message into the buffer itself while sending
ListenerSendNvim_WritesBuffer ==
    /\ ~crashed
    /\ lpc = "send_nvim"
    /\ queue' = Append(queue, CommandPayload(nEvents, MessageOf(msg)))
    /\ enqLog' = Append(enqLog, CommandPayload(nEvents, MessageOf(msg)))
    /\ lpc' = "notify_nvim"
    /\ buffer' = SetLines(buffer, 0, 10,
                          <<MessageOf(msg).author, Empty, MessageOf(msg).text>>)
    /\ UNCHANGED <<nEvents, msg, pending, nNotify>>
    /\ UNCHANGED <<hpc, nWake, tasks, window, wins, valid, lastPos, lastFail,
                   colors, errLog, dispLog>>
    /\ UNCHANGED crashed

\* sender.send(CommandPayload { command: Command::Message(..) }).unwrap()
ListenerSendNvim ==
    /\ ~crashed
    /\ lpc = "send_nvim"
    /\ queue' = Append(queue, CommandPayload(nEvents, MessageOf(msg)))
    /\ enqLog' = Append(enqLog, CommandPayload(nEvents, MessageOf(msg)))
    /\ lpc' = "notify_nvim"
    /\ UNCHANGED <<nEvents, msg, pending, nNotify>>
    /\ UNCHANGED hostVars /\ UNCHANGED crashed

\* handle.send().unwrap() in the !nvim branch
ListenerNotifyNvim ==
    /\ ~crashed
    /\ lpc = "notify_nvim"
    /\ pending' = TRUE
    /\ nNotify' = nNotify + 1
    /\ lpc' = AfterNvim(msg)
    /\ UNCHANGED <<nEvents, msg, queue, enqLog>>
    /\ UNCHANGED hostVars /\ UNCHANGED crashed

\* sender.send(CommandPayload { command: Command::ColorScheme(..) }).unwrap()
ListenerSendColorscheme ==
    /\ ~crashed
    /\ lpc = "send_colorscheme"
    /\ queue' = Append(queue, CommandPayload(nEvents, ColorSchemeOf(msg)))
    /\ enqLog' = Append(enqLog, CommandPayload(nEvents, ColorSchemeOf(msg)))
    /\ lpc' = "notify_colorscheme"
    /\ UNCHANGED <<nEvents, msg, pending, nNotify>>
    /\ UNCHANGED hostVars /\ UNCHANGED crashed

\* handle.send().unwrap() in the !colorscheme branch
ListenerNotifyColorscheme ==
    /\ ~crashed
    /\ lpc = "notify_colorscheme"
    /\ pending' = TRUE
    /\ nNotify' = nNotify + 1
    /\ lpc' = "recv"
    /\ UNCHANGED <<nEvents, msg, queue, enqLog>>
    /\ UNCHANGED hostVars /\ UNCHANGED crashed

-----------------------------------------------------------------------------
(* Host thread (the Neovim main loop) *)

\* libuv serves the async handle: it clears the pending flag, whatever the
\* number of send() calls that set it, and invokes the callback once.
HostWake ==
    /\ ~crashed
    /\ hpc = "loop"
    /\ pending
    /\ pending' = FALSE
    /\ hpc' = "cb"
    /\ nWake' = nWake + 1
    /\ UNCHANGED <<tasks, buffer, window, wins, valid, lastPos, lastFail,
                   colors, errLog, dispLog, queue, enqLog>>
    /\ UNCHANGED listenerVars /\ UNCHANGED crashed

\* the callback reads the front payload without taking it off the channel
WakeCallback_Peek ==
    /\ ~crashed
    /\ hpc = "cb"
    /\ queue # <<>>
    /\ tasks' = Append(tasks, Head(queue))
    /\ hpc' = "loop"
    /\ UNCHANGED <<nWake, buffer, window, wins, valid, lastPos, lastFail,
                   colors, errLog, dispLog, queue, pending, enqLog>>
    /\ UNCHANGED listenerVars /\ UNCHANGED crashed

\* the callback takes the newest payload instead of the oldest
WakeCallback_Lifo ==
    /\ ~crashed
    /\ hpc = "cb"
    /\ queue # <<>>
    /\ queue' = SubSeq(queue, 1, Len(queue) - 1)
    /\ tasks' = Append(tasks, queue[Len(queue)])
    /\ hpc' = "loop"
    /\ UNCHANGED <<nWake, buffer, window, wins, valid, lastPos, lastFail,
                   colors, errLog, dispLog, pending, enqLog>>
    /\ UNCHANGED listenerVars /\ UNCHANGED crashed

\* the callback applies the command itself instead of calling schedule()
WakeCallback_Inline ==
    /\ ~crashed
    /\ hpc = "cb"
    /\ queue # <<>>
    /\ queue' = Tail(queue)
    /\ dispLog' = Append(dispLog, Head(queue))
    /\ buffer' = IF Head(queue).command.kind = "Message"
                  THEN SetLines(buffer, 0, 10,
                                <<Head(queue).command.author, Empty,
                                  Head(queue).command.text>>)
                  ELSE buffer
    /\ hpc' = "loop"
    /\ UNCHANGED <<nWake, tasks, window, wins, valid, lastPos, lastFail,
                   colors, errLog, pending, enqLog>>
    /\ UNCHANGED listenerVars /\ UNCHANGED crashed

\* The AsyncHandle callback: receiver.blocking_recv().unwrap(), which waits
\* while the channel is empty, then schedule(closure owning the payload).
WakeCallback ==
    /\ ~crashed
    /\ hpc = "cb"
    /\ queue # <<>>
    /\ queue' = Tail(queue)
    /\ tasks' = Append(tasks, Head(queue))
    /\ hpc' = "loop"
    /\ UNCHANGED <<nWake, buffer, window, wins, valid, lastPos, lastFail,
                   colors, errLog, dispLog, pending, enqLog>>
    /\ UNCHANGED listenerVars /\ UNCHANGED crashed

\* The closure given to schedule(), for a Command::Message payload.
DispatchMessage(o) ==
    /\ ~crashed
    /\ hpc = "loop"
    /\ tasks # <<>>
    /\ Head(tasks).command.kind = "Message"
    /\ LET c == Head(tasks).command
           r == show_msg(PluginState, c.author, c.text, o)
       IN  /\ buffer' = r.st.buffer
           /\ window' = r.st.window
           /\ wins' = r.st.wins
           /\ valid' = r.st.valid
           /\ lastPos' = r.st.lastPos
           /\ lastFail' = r.st.failed
           /\ crashed' = (r.result = "Panic")
           /\ errLog' = IF r.result = "Err"
                        THEN Append(errLog, "Plugin Error: Message")
                        ELSE errLog
    /\ tasks' = Tail(tasks)
    /\ dispLog' = Append(dispLog, Head(tasks))
    /\ UNCHANGED <<hpc, nWake, colors, queue, pending, enqLog>>
    /\ UNCHANGED listenerVars

\* the ColorScheme arm forgetting the tracked window
DispatchColorScheme_DropsWindow ==
    /\ ~crashed
    /\ hpc = "loop"
    /\ tasks # <<>>
    /\ Head(tasks).command.kind = "ColorScheme"
    /\ LET c == Head(tasks).command
           r == colosrcheme(c.name)
       IN  /\ colors' = IF r = "Ok" THEN c.name ELSE colors
           /\ lastFail' = IF r = "Err" THEN "command" ELSE "none"
           /\ errLog' = IF r = "Err"
                        THEN Append(errLog, "Plugin Error: Colorscheme")
                        ELSE errLog
    /\ window' = 0
    /\ tasks' = Tail(tasks)
    /\ dispLog' = Append(dispLog, Head(tasks))
    /\ UNCHANGED <<hpc, nWake, buffer, wins, valid, lastPos,
                   queue, pending, enqLog>>
    /\ UNCHANGED listenerVars /\ UNCHANGED crashed

\* the ColorScheme arm reporting with the text of the Message arm
DispatchColorScheme_WrongTag ==
    /\ ~crashed
    /\ hpc = "loop"
    /\ tasks # <<>>
    /\ Head(tasks).command.kind = "ColorScheme"
    /\ LET c == Head(tasks).command
           r == colosrcheme(c.name)
       IN  /\ colors' = IF r = "Ok" THEN c.name ELSE colors
           /\ lastFail' = IF r = "Err" THEN "command" ELSE "none"
           /\ errLog' = IF r = "Err"
                        THEN Append(errLog, "Plugin Error: Message")
                        ELSE errLog
    /\ tasks' = Tail(tasks)
    /\ dispLog' = Append(dispLog, Head(tasks))
    /\ UNCHANGED <<hpc, nWake, buffer, window, wins, valid, lastPos,
                   queue, pending, enqLog>>
    /\ UNCHANGED listenerVars /\ UNCHANGED crashed

\* The closure given to schedule(), for a Command::ColorScheme payload.
DispatchColorScheme ==
    /\ ~crashed
    /\ hpc = "loop"
    /\ tasks # <<>>
    /\ Head(tasks).command.kind = "ColorScheme"
    /\ LET c == Head(tasks).command
           r == colosrcheme(c.name)
       IN  /\ colors' = IF r = "Ok" THEN c.name ELSE colors
           /\ lastFail' = IF r = "Err" THEN "command" ELSE "none"
           /\ errLog' = IF r = "Err"
                        THEN Append(errLog, "Plugin Error: Colorscheme")
                        ELSE errLog
    /\ tasks' = Tail(tasks)
    /\ dispLog' = Append(dispLog, Head(tasks))
    /\ UNCHANGED <<hpc, nWake, buffer, window, wins, valid, lastPos,
                   queue, pending, enqLog>>
    /\ UNCHANGED listenerVars /\ UNCHANGED crashed

\* The user (or the host) closes a window; the plugin is not told.
CloseWindow(w) ==
    /\ ~crashed
    /\ hpc = "loop"
    /\ w \in valid
    /\ valid' = valid \ {w}
    /\ UNCHANGED <<hpc, nWake, tasks, buffer, window, wins, lastPos, lastFail,
                   colors, errLog, dispLog, queue, pending, enqLog>>
    /\ UNCHANGED listenerVars /\ UNCHANGED crashed

-----------------------------------------------------------------------------
(* Specifications *)

ListenerStep ==
    \/ ListenerSendNvim
    \/ ListenerNotifyNvim
    \/ ListenerSendColorscheme
    \/ ListenerNotifyColorscheme

HostStep ==
    \/ HostWake
    \/ WakeCallback
    \/ \E o \in HostOutcomes : DispatchMessage(o)
    \/ DispatchColorScheme

Next ==
    \/ \E m \in BridgeEvents : ListenerRecv(m)
    \/ ListenerStep
    \/ HostStep
    \/ \E w \in 1..wins : CloseWindow(w)

Spec == Init /\ [][Next]_vars

\* The listener alone, handling one chat event drawn from ParseEvents.
ParseNext ==
    \/ (nEvents = 0 /\ \E m \in ParseEvents : ListenerRecv(m))
    \/ ListenerStep

ParseSpec == Init /\ [][ParseNext]_vars

-----------------------------------------------------------------------------
(* Vocabulary of the properties *)

StartsWith(s, p) == Len(s) >= Len(p) /\ SubSeq(s, 1, Len(p)) = p
IsPrefix(p, s) == StartsWith(s, p)

\* number of payloads of log that came from chat event k
EnqueuesOf(log, k) == Cardinality({i \in 1..Len(log) : log[i].id = k})

\* the payloads taken off the channel so far, in the order taken
Dequeued == dispLog \o tasks

\* the host loop has nothing left to run and the listener awaits an event
Quiescent ==
    /\ ~crashed
    /\ lpc = "recv"
    /\ hpc = "loop"
    /\ ~pending
    /\ tasks = <<>>

\* the chat event msg has been handled completely
Handled == nEvents >= 1 /\ lpc = "recv"

\* the trimmed text begins with a command token and one space
HasNvimPrefix(text) == StartsWith(Trim(text), NvimTok \o Sp)
HasColorschemePrefix(text) == StartsWith(Trim(text), ColorschemeTok \o Sp)
\* what follows the first n characters of the trimmed text
After(text, n) == SubSeq(Trim(text), n + 1, Len(Trim(text)))

\* this step runs the scheduled closure of a Message payload
MessageDispatchStep ==
    /\ tasks # <<>>
    /\ dispLog' = Append(dispLog, Head(tasks))
    /\ Head(tasks).command.kind = "Message"

-----------------------------------------------------------------------------
(* Properties *)

\* C1: no command is lost. Once every notify has been served and the host
\* loop has nothing left to run, every payload the listener enqueued has been
\* dispatched.
C1_NoCommandLost == Quiescent => dispLog = enqLog

\* C2: no command is duplicated or invented. The dispatched payloads are
\* pairwise distinct and each of them was enqueued; every completed wake
\* callback took exactly one payload off the channel and scheduled exactly
\* one task for it.
C2_NoDuplicateNoInvented ==
    /\ \A i, j \in 1..Len(dispLog) : i # j => dispLog[i].id # dispLog[j].id
    /\ \A i \in 1..Len(dispLog) : \E j \in 1..Len(enqLog) : enqLog[j] = dispLog[i]
    /\ Len(dispLog) + Len(tasks) = nWake - (IF hpc = "cb" THEN 1 ELSE 0)
    /\ Len(dispLog) + Len(tasks) + Len(queue) = Len(enqLog)

C2_Witness == Len(dispLog) >= 2 /\ Len(enqLog) >= 3

\* C3: order is preserved end to end. The sequence of payloads dequeued by
\* the wake callback, and the sequence dispatched by the scheduled tasks,
\* are prefixes of the sequence enqueued.
C3_OrderPreserved ==
    /\ IsPrefix(Dequeued, enqLog)
    /\ IsPrefix(dispLog, enqLog)

C3_Witness == Len(dispLog) >= 1 /\ Len(tasks) >= 1 /\ Len(queue) >= 1

\* C4: the blocking dequeue never waits. Whenever the host loop has invoked
\* the wake callback the channel holds a payload; notifies and callback
\* invocations never outnumber the enqueues completed.
C4_DequeueNeverWaits ==
    /\ hpc = "cb" => queue # <<>>
    /\ nNotify <= Len(enqLog)
    /\ nWake <= Len(enqLog)

C4_Witness == hpc = "cb" /\ Len(queue) = 1 /\ nWake = Len(enqLog)

\* C5: UIState belongs to the host thread. A step of the listener changes
\* neither the buffer nor the window handle nor anything else the host owns,
\* and the buffer and the window handle change only in a step of the host
\* loop that runs a scheduled closure.
C5_UIStateHostOnly ==
    [][ /\ (listenerVars' # listenerVars \/ enqLog' # enqLog)
            => (UNCHANGED uiState /\ UNCHANGED hostVars)
        /\ uiState' # uiState
            => (hpc = "loop" /\ tasks # <<>> /\ tasks' = Tail(tasks)
                /\ UNCHANGED listenerVars /\ UNCHANGED <<queue, pending>>)
      ]_vars

C5_Witness == lpc = "notify_nvim" /\ window # 0 /\ Len(buffer) = 3

\* C6: a Privmsg whose trimmed text starts with neither "!nvim " nor
\* "!colorscheme " yields no command: nothing is enqueued, no notify is sent.
C6_NoCommandWithoutPrefix ==
    (nEvents >= 1 /\ msg.kind = "Privmsg"
        /\ ~HasNvimPrefix(msg.text) /\ ~HasColorschemePrefix(msg.text))
    => (lpc = "recv" /\ enqLog = <<>> /\ queue = <<>> /\ nNotify = 0 /\ ~pending)

C6_Witness ==
    /\ Handled
    /\ msg \in {Privmsg(Alice, NvimTok \o Sp), Privmsg(Bob, ColorschemeTok)}
    /\ enqLog = <<>>

\* C7: a Privmsg whose trimmed text is "!nvim", one space and a remainder
\* yields Message{author: sender, text: remainder}; with "!colorscheme" it
\* yields ColorScheme{name: remainder}. "!nvim hello world" gives the text
\* "hello world", "!colorscheme gruvbox" the name "gruvbox".
C7_ParserEmits ==
    (Handled /\ msg.kind = "Privmsg") =>
        /\ HasNvimPrefix(msg.text) =>
             enqLog = <<CommandPayload(1, Message(msg.sender, After(msg.text, 6)))>>
        /\ HasColorschemePrefix(msg.text) =>
             enqLog = <<CommandPayload(1, ColorScheme(After(msg.text, 13)))>>
        /\ msg.text = NvimHelloWorld =>
             enqLog[1].command = Message(msg.sender, Hello \o Sp \o World)
        /\ msg.text = ColorschemeGruvbox =>
             enqLog[1].command = ColorScheme(Gruvbox)

C7_Witness ==
    /\ Handled
    /\ msg = Privmsg(Alice, NvimHelloWorld)
    /\ Len(enqLog) = 1 /\ nNotify = 1

C9_ZeroOrOneEnqueue ==
    /\ \A k \in 1..nEvents : EnqueuesOf(enqLog, k) <= 1
    /\ \A i \in 1..Len(enqLog) : enqLog[i].id \in 1..nEvents
    /\ Handled =>
         EnqueuesOf(enqLog, nEvents) =
            IF msg.kind = "Privmsg"
               /\ (HasNvimPrefix(msg.text) \/ HasColorschemePrefix(msg.text))
            THEN 1 ELSE 0
    /\ nNotify <= Len(enqLog)
    /\ Len(enqLog) <= nNotify + 1
    /\ lpc = "recv" => nNotify = Len(enqLog)

C9_Witness ==
    /\ lpc = "notify_colorscheme"
    /\ Len(enqLog) = nNotify + 1
    /\ nNotify >= 1
    /\ nEvents > Len(enqLog)

\* C10: dispatching a Message while the tracked window is present and valid
\* opens no window and leaves the tracked handle as it is.
C10_ValidWindowKept ==
    [][ (MessageDispatchStep /\ window # 0 /\ window \in valid)
        => (window' = window /\ wins' = wins /\ valid' = valid) ]_vars

\* two Messages dispatched, one window opened in all, and it is the one tracked
C10_Witness ==
    /\ Len(dispLog) >= 2
    /\ dispLog[1].command.kind = "Message"
    /\ dispLog[2].command.kind = "Message"
    /\ errLog = <<>>
    /\ wins = 1 /\ window = 1 /\ window \in valid

\* the tracked window handle is None or refers to a closed window
NoUsableWindow == window = 0 \/ window \notin valid

\* this step's dispatch returned Ok: no host call was rejected, nothing panicked
DispatchOk == lastFail' = "none" /\ ~crashed'

C12_FailureIsolation ==
    /\ lastFail # "none" => ~crashed
    /\ (Quiescent /\ errLog # <<>>) => dispLog = enqLog

\* this step runs a scheduled closure
DispatchStep == tasks # <<>> /\ dispLog' = Append(dispLog, Head(tasks))

\* the error line that belongs to a command kind
ErrorTag(kind) ==
    IF kind = "Message" THEN "Plugin Error: Message"
    ELSE "Plugin Error: Colorscheme"

\* C13: a dispatch in which the host rejects a call writes exactly one error
\* line, the one of the kind of the command dispatched; a dispatch in which
\* no call is rejected writes none. The host rejects a ColorScheme exactly
\* when the name is not an installed scheme.
C13_OneTaggedError ==
    [][ DispatchStep =>
          /\ lastFail' # "none"
               => errLog' = Append(errLog, ErrorTag(Head(tasks).command.kind))
          /\ lastFail' = "none" => errLog' = errLog
          /\ Head(tasks).command.kind = "ColorScheme"
               => (lastFail' # "none"
                     <=> Head(tasks).command.name \notin InstalledSchemes)
      ]_vars

\* a Message failed, a ColorScheme failed and a third dispatch succeeded
C13_Witness ==
    /\ Len(errLog) = 2
    /\ \E i, j \in 1..2 : /\ errLog[i] = "Plugin Error: Message"
                          /\ errLog[j] = "Plugin Error: Colorscheme"
    /\ Len(dispLog) = 3
    /\ ~crashed

\* the three lines show_msg writes for a Message command
LinesOf(c) == <<c.author, Empty, c.text>>

\* C14: after a successful dispatch of Message{author, text} the buffer
\* holds author, an empty line, text as its first three lines and nothing of
\* an earlier message, and the tracked window is present and valid. The
\* text is written before the window is opened: whenever the dispatch opens
\* a window, successfully or not, the buffer already holds the three lines.
C14_MessageShown ==
    [][ MessageDispatchStep =>
          /\ DispatchOk =>
               /\ Len(buffer') = 3
               /\ SubSeq(buffer', 1, 3) = LinesOf(Head(tasks).command)
               /\ window' # 0 /\ window' \in valid'
          /\ wins' # wins => buffer' = LinesOf(Head(tasks).command)
      ]_vars

\* bob's message has replaced alice's in the buffer
C14_Witness ==
    /\ Len(dispLog) = 2
    /\ dispLog[1].command = Message(Alice, Hi)
    /\ dispLog[2].command = Message(Bob, Hello)
    /\ buffer = <<Bob, Empty, Hello>>
    /\ window \in valid
    /\ errLog = <<>>

\* what a dispatch may change: the plugin's state and the host's UI
uiEffects == <<buffer, window, wins, valid, lastPos, lastFail, colors, errLog>>

\* C15: two-hop delivery. A step inside the wake callback takes one payload
\* off the channel and schedules it, and changes nothing of the UI; a
\* payload is dispatched only by a later step of the host loop that runs a
\* scheduled task. Per payload the order is enqueue, notify, dequeue,
\* dispatch: the payloads dequeued are a prefix of those enqueued, no more
\* numerous than the notifies sent, and the dispatched ones were dequeued in
\* an earlier step.
C15_TwoHop ==
    [][ /\ (hpc = "cb" \/ hpc' = "cb")
            => (UNCHANGED uiEffects /\ UNCHANGED dispLog)
        /\ (hpc = "cb" /\ hpc' = "loop")
            => (/\ queue # <<>>
                /\ queue' = Tail(queue)
                /\ tasks' = Append(tasks, Head(queue)))
        /\ dispLog' # dispLog
            => (/\ hpc = "loop" /\ hpc' = "loop"
                /\ tasks # <<>>
                /\ dispLog' = Append(dispLog, Head(tasks))
                /\ tasks' = Tail(tasks)
                /\ UNCHANGED queue)
        /\ uiEffects' # uiEffects => (dispLog' # dispLog \/ valid' # valid)
        /\ IsPrefix(Dequeued', enqLog')
        /\ Len(Dequeued') <= nNotify'
        /\ nNotify' <= Len(enqLog')
      ]_vars

\* two payloads dequeued and scheduled, none dispatched, the UI untouched
C15_Witness ==
    /\ hpc = "loop"
    /\ Len(tasks) = 2
    /\ dispLog = <<>>
    /\ buffer = <<Empty>> /\ window = 0 /\ colors = DefaultScheme

\* C16: whenever a window has been opened, the tracked handle is the window
\* opened last, so no opened window is left untracked and no two windows
\* the plugin opened are valid side by side.
C16_CreatedWindowTracked ==
    /\ wins > 0 => window = wins
    /\ Cardinality(valid) <= 1

\* the position lies inside some viewport the host reported
InViewport(pos) ==
    \E vp \in Viewports :
        /\ pos[1].hi = 0 /\ pos[1].lo <= vp[1]
        /\ pos[2].hi = 0 /\ pos[2].lo <= vp[2]

\* C17: for every viewport the placement cols/2 - 19, rows/2 - 4 is computed
\* without underflow: the host thread never panics and the position given
\* to nvim_open_win lies inside the viewport.
C17_PlacementNoUnderflow ==
    /\ ~crashed
    /\ InViewport(lastPos)

\* this step runs the scheduled closure of a ColorScheme payload
ColorSchemeDispatchStep ==
    DispatchStep /\ Head(tasks).command.kind = "ColorScheme"

\* C19: dispatching a ColorScheme, accepted or rejected, leaves the buffer,
\* the tracked window handle and the windows opened as they were; an
\* accepted name becomes the host's colorscheme as it was received, a
\* rejected one leaves the colorscheme alone.
C19_ColorSchemeFrame ==
    [][ ColorSchemeDispatchStep =>
          /\ UNCHANGED <<buffer, window, wins, valid, lastPos>>
          /\ Head(tasks).command.name \in InstalledSchemes
               => colors' = Head(tasks).command.name
          /\ Head(tasks).command.name \notin InstalledSchemes
               => colors' = colors
      ]_vars

\* a Message is shown, then one ColorScheme was accepted and one rejected
C19_Witness ==
    /\ window # 0 /\ Len(buffer) = 3
    /\ colors = Gruvbox
    /\ errLog = <<"Plugin Error: Colorscheme">>
    /\ Len(dispLog) = 3

\* C20: when the host rejects the set_lines of a Message dispatch, the
\* dispatch stops there: no window is opened, the tracked handle, the set of
\* valid windows and the buffer stay as they were, and the failure is
\* reported as a Message error.
C20_WriteFailureStops ==
    [][ (MessageDispatchStep /\ lastFail' = "set_lines") =>
          /\ UNCHANGED <<buffer, window, wins, valid, lastPos>>
          /\ errLog' = Append(errLog, "Plugin Error: Message")
          /\ ~crashed'
      ]_vars

\* the write was rejected while the tracked window was closed: it stays so
C20_Witness ==
    /\ lastFail = "set_lines"
    /\ window # 0 /\ window \notin valid
    /\ wins = 1
    /\ errLog = <<"Plugin Error: Message">>

====
